---- MODULE Spec2Model ----
(***************************************************************************)
(* Model of the xdeployment composition function (go-modules/xdeployment   *)
(* and go-modules/composer): RunFunction decodes the request, constructs   *)
(* the three resource composers, runs them in a fixed order and writes the *)
(* aggregated desired resources and the readiness conditions into the      *)
(* response.                                                               *)
(*                                                                         *)
(* Conventions.  A Go pointer is a sequence of length at most one: Nil is  *)
(* the nil pointer and Ptr(v) points at v.  A Go map is a function with a  *)
(* finite domain.  Every part of the request carries a flag telling        *)
(* whether the SDK can decode it.                                          *)
(***************************************************************************)
EXTENDS Integers, Sequences, FiniteSets, TLC

VARIABLES
    req,            \* the RunFunctionRequest of this invocation
    pc,             \* position of RunFunction
    rsp,            \* the RunFunctionResponse under construction
    ret,            \* what RunFunction returned: "none", "rsp" (rsp, nil), "err" (nil, err)
    defaultValues,  \* fn.go:63  decoded function input
    observed,       \* fn.go:70  decoded observed composed resources
    desired,        \* fn.go:77  decoded desired composed resources
    xd,             \* fn.go:91  the typed XDeployment
    resources,      \* fn.go:133 the constructed composers, in loop order
    i,              \* fn.go:140 index of the next composer the loop runs
    prev,           \* the request and the outcome of the invocation before this one
    call,           \* a composer or helper called on its own: the arguments
    out             \* a composer or helper called on its own: what it returned

vars == <<req, pc, rsp, ret, defaultValues, observed, desired, xd, resources, i,
          prev, call, out>>

----------------------------------------------------------------------------
(* Pointers and maps *)

Nil == <<>>
Ptr(v) == <<v>>
Deref(p) == p[1]

EmptyMap == <<>>

\* A runtime.Object interface that holds nothing, neither a type nor a
\* pointer; Nil, as a runtime.Object, is a nil pointer of some type.
UntypedNil == <<Nil, Nil>>
MapPut(m, k, v) == [x \in (DOMAIN m) \cup {k} |-> IF x = k THEN v ELSE m[x]]

----------------------------------------------------------------------------
(* Bounds of the model *)

\* Number of entries of the inbound desired set under names that are none of
\* the engine's resource names.
MaxForeign == 1

----------------------------------------------------------------------------
(* Values of the SDK *)

ReadyUnspecified == "Unspecified"
ReadyTrue == "True"
ReadyFalse == "False"

TargetComposite == "Composite"
TargetCompositeAndClaim == "CompositeAndClaim"

\* response.ConditionTrue(rsp, type, reason).TargetComposite(): the response
\* with the condition appended.
ConditionTrue(r, type, reason, target) ==
    [r EXCEPT !.conditions = Append(@,
        [Type |-> type, Status |-> "True", Reason |-> reason,
         Message |-> "", Target |-> target])]

\* response.ConditionFalse(rsp, type, reason).WithMessage(msg).Target...()
ConditionFalse(r, type, reason, msg, target) ==
    [r EXCEPT !.conditions = Append(@,
        [Type |-> type, Status |-> "False", Reason |-> reason,
         Message |-> msg, Target |-> target])]

\* response.Fatal(rsp, err): a result of severity Fatal is appended.
Fatal(r, msg) ==
    [r EXCEPT !.results = Append(@, [Severity |-> "Fatal", Message |-> msg])]

\* Mutant of ResponseTo: the request's desired state is not copied.
ResponseTo_Empty(rq) ==
    [desired |-> EmptyMap, conditions |-> <<>>, results |-> <<>>]

\* response.To(req, ttl): the response starts with the request's desired
\* state copied into it, and with no condition and no result.
ResponseTo(rq) ==
    [desired |-> rq.desired.resources, conditions |-> <<>>, results |-> <<>>]

\* Mutant of InternalErrorResponse: the condition targets the composite only.
InternalErrorResponse_CompositeOnly(r, msg) ==
    Fatal(ConditionFalse(r, "FunctionSuccess", "InternalError", "",
                         TargetComposite), msg)

InternalErrorResponse(r, msg) ==
    Fatal(ConditionFalse(r, "FunctionSuccess", "InternalError", "",
                         TargetCompositeAndClaim), msg)

----------------------------------------------------------------------------
(* Naming *)

Kinds == <<"deployment", "service", "httproute">>

\* Mutant of ResourceNameOf: the name lacks the xdeployment prefix.
ResourceNameOf_Unprefixed(kind, name) == kind \o "-" \o name

\* fmt.Sprintf("xdeployment-<kind>-%s", f.XR.Name)
ResourceNameOf(kind, name) == "xdeployment-" \o kind \o "-" \o name

ConditionTypeOf(kind) ==
    CASE kind = "deployment" -> "DeploymentReady"
      [] kind = "service"    -> "ServiceReady"
      [] kind = "httproute"  -> "HttpRouteReady"

----------------------------------------------------------------------------
(* Program constants *)

DefaultReplicas == 2
ServiceListenPort == 8080
BackendPort == 8080

\* A Go int (64 bits) is the pair <<hi, lo>> standing for hi * 2^16 + lo,
\* with lo in 0..65535: TLC's own integers have 32 bits.
GoInt(hi, lo) == <<hi, lo>>

\* int32(v): Go's conversion of an int to 32 bits (two's complement wrap),
\* as an integer.
Int32(v) == (((v[1] + 32768) % 65536) - 32768) * 65536 + v[2]

----------------------------------------------------------------------------
(* Environment variables.  A key is a string given as the sequence of    *)
(* its character codes, so that sort.Strings' byte-wise order is the     *)
(* lexicographic order on sequences.                                     *)

Min(a, b) == IF a <= b THEN a ELSE b

\* Go's s < t on strings.
StrLess(s, t) ==
    \E k \in 1..(Min(Len(s), Len(t)) + 1) :
        /\ \A j \in 1..(k - 1) : s[j] = t[j]
        /\ \/ k = Len(s) + 1 /\ k <= Len(t)
           \/ k <= Len(s) /\ k <= Len(t) /\ s[k] < t[k]

RECURSIVE Insert(_, _)
Insert(sorted, key) ==
    IF sorted = <<>> THEN <<key>>
    ELSE IF StrLess(key, Head(sorted)) THEN <<key>> \o sorted
    ELSE <<Head(sorted)>> \o Insert(Tail(sorted), key)

\* Mutant of SortStrings: the keys stay in the order they were collected.
SortStrings_None(keys) == keys

\* sort.Strings(keys)
RECURSIVE SortStrings(_)
SortStrings(keys) ==
    IF keys = <<>> THEN <<>>
    ELSE Insert(SortStrings(Tail(keys)), Head(keys))

\* The enumerations of a set: the orders in which `for k := range envMap`
\* may visit the keys.
Enumerations(S) ==
    {f \in [1..Cardinality(S) -> S] : \A a, b \in DOMAIN f : a # b => f[a] # f[b]}

\* convertEnvVars, with the order in which the map's keys were visited.
convertEnvVarsFrom(envMap, visited) ==
    IF Cardinality(DOMAIN envMap) = 0 THEN <<>>
    ELSE LET keys == SortStrings(visited)
         IN  [n \in 1..Len(keys) |-> [Name |-> keys[n], Value |-> envMap[keys[n]]]]

convertEnvVars(envMap) ==
    convertEnvVarsFrom(envMap, CHOOSE v \in Enumerations(DOMAIN envMap) : TRUE)

----------------------------------------------------------------------------
(* composer.go: the generic composer *)

\* ConvertObserved[T](observed, resourceName): the observed object under the
\* name decoded into T, nil when there is none, an error when it does not
\* decode.
\* Mutant of ConvertObserved: a resource that was never observed is an
\* error.
ConvertObserved_MissingIsError(obs, resourceName) ==
    IF resourceName \in DOMAIN obs
    THEN IF obs[resourceName].corrupt
         THEN [err |-> TRUE, obj |-> Nil]
         ELSE [err |-> FALSE, obj |-> Ptr(obs[resourceName])]
    ELSE [err |-> TRUE, obj |-> Nil]

ConvertObserved(obs, resourceName) ==
    IF resourceName \in DOMAIN obs
    THEN IF obs[resourceName].corrupt
         THEN [err |-> TRUE, obj |-> Nil]
         ELSE [err |-> FALSE, obj |-> Ptr(obs[resourceName])]
    ELSE [err |-> FALSE, obj |-> Nil]

\* A composer: BaseComposer's fields and the decoded observed resource.
NewComposer(kind, f) ==
    LET resourceName == ResourceNameOf(kind, f.XR.Name)
        observedStructured == ConvertObserved(f.Observed, resourceName)
    IN  IF observedStructured.err
        THEN [err |-> TRUE, composer |-> Nil]
        ELSE [err |-> FALSE,
              composer |-> Ptr([Kind |-> kind,
                                FunctionContext |-> f,
                                ResourceName |-> resourceName,
                                ConditionType |-> ConditionTypeOf(kind),
                                ObservedResource |-> observedStructured.obj])]

NewDeployment(f) == NewComposer("deployment", f)
NewService(f) == NewComposer("service", f)
NewHttpRoute(f) == NewComposer("httproute", f)

GetConditionType(b) == b.ConditionType

\* Mutant of ComposeDesiredResourceFrom: a nil object is not recognised and
\* is wrapped like any other.
\* Mutant of ComposeDesiredResourceFrom: the resource is wrapped as ready.
ComposeDesiredResourceFrom_ReadyTrue(b, structuredResource, fromFails) ==
    IF structuredResource = UntypedNil \/ structuredResource = Nil
    THEN [err |-> FALSE, res |-> Nil]
    ELSE IF fromFails
    THEN [err |-> TRUE, res |-> Nil]
    ELSE [err |-> FALSE,
          res |-> Ptr([Name |-> b.ResourceName,
                       Resource |-> [Resource |-> Deref(structuredResource),
                                     Ready |-> ReadyTrue]])]

ComposeDesiredResourceFrom_NilWrapped(b, structuredResource, fromFails) ==
    IF fromFails /\ structuredResource # Nil
    THEN [err |-> TRUE, res |-> Nil]
    ELSE [err |-> FALSE,
          res |-> Ptr([Name |-> b.ResourceName,
                       Resource |-> [Resource |-> structuredResource,
                                     Ready |-> ReadyFalse]])]

\* ComposeDesiredResourceFrom(structuredResource): nil for a nil object, an
\* error when composed.From fails, else the object under the composer's name
\* with Ready = False.
ComposeDesiredResourceFrom(b, structuredResource, fromFails) ==
    IF structuredResource = UntypedNil \/ structuredResource = Nil
    THEN [err |-> FALSE, res |-> Nil]
    ELSE IF fromFails
    THEN [err |-> TRUE, res |-> Nil]
    ELSE [err |-> FALSE,
          res |-> Ptr([Name |-> b.ResourceName,
                       Resource |-> [Resource |-> Deref(structuredResource),
                                     Ready |-> ReadyFalse]])]

----------------------------------------------------------------------------
(* fn-deployment.go *)

\* Mutant of Deployment_createResource: a replica count of zero or less is
\* replaced by the default.
Deployment_createResource_NonPositiveDefault(d) ==
    LET x == d.FunctionContext.XR
        replicas == IF x.Spec.Replicas = Nil THEN Ptr(DefaultReplicas)
                    ELSE IF Deref(x.Spec.Replicas) <= 0 THEN Ptr(DefaultReplicas)
                    ELSE x.Spec.Replicas
        container == [Name |-> x.Name,
                      Image |-> x.Spec.Image,
                      Env |-> convertEnvVars(x.Spec.Env),
                      Ports |-> IF x.Spec.Port # Nil
                                THEN <<[Name |-> "http",
                                        ContainerPort |-> Int32(Deref(x.Spec.Port))]>>
                                ELSE <<>>]
    IN  Ptr([Kind |-> "Deployment",
             Name |-> x.Name,
             Replicas |-> replicas,
             MatchLabels |-> x.Name,
             TemplateName |-> x.Name,
             TemplateLabels |-> x.Name,
             Containers |-> <<container>>])

\* Mutant of Deployment_createResource: no deployment without a port.
Deployment_createResource_NeedsPort(d) ==
    LET x == d.FunctionContext.XR
        replicas == IF x.Spec.Replicas = Nil THEN Ptr(DefaultReplicas)
                    ELSE x.Spec.Replicas
        container == [Name |-> x.Name,
                      Image |-> x.Spec.Image,
                      Env |-> convertEnvVars(x.Spec.Env),
                      Ports |-> IF x.Spec.Port # Nil
                                THEN <<[Name |-> "http",
                                        ContainerPort |-> Int32(Deref(x.Spec.Port))]>>
                                ELSE <<>>]
    IN  IF x.Spec.Port = Nil THEN Nil ELSE
        Ptr([Kind |-> "Deployment",
             Name |-> x.Name,
             Replicas |-> replicas,
             MatchLabels |-> x.Name,
             TemplateName |-> x.Name,
             TemplateLabels |-> x.Name,
             Containers |-> <<container>>])

Deployment_createResource(d) ==
    LET x == d.FunctionContext.XR
        replicas == IF x.Spec.Replicas = Nil THEN Ptr(DefaultReplicas)
                    ELSE x.Spec.Replicas
        container == [Name |-> x.Name,
                      Image |-> x.Spec.Image,
                      Env |-> convertEnvVars(x.Spec.Env),
                      Ports |-> IF x.Spec.Port # Nil
                                THEN <<[Name |-> "http",
                                        ContainerPort |-> Int32(Deref(x.Spec.Port))]>>
                                ELSE <<>>]
    IN  Ptr([Kind |-> "Deployment",
             Name |-> x.Name,
             Replicas |-> replicas,
             MatchLabels |-> x.Name,
             TemplateName |-> x.Name,
             TemplateLabels |-> x.Name,
             Containers |-> <<container>>])

\* Mutant of Deployment_IsReady: only the first status condition is read.
Deployment_IsReady_FirstOnly(d) ==
    IF d.ObservedResource = Nil THEN FALSE
    ELSE LET conditions == Deref(d.ObservedResource).conditions
         IN  /\ conditions # <<>>
             /\ conditions[1].Type = "Available"
             /\ conditions[1].Status = "True"

Deployment_IsReady(d) ==
    IF d.ObservedResource = Nil THEN FALSE
    ELSE LET conditions == Deref(d.ObservedResource).conditions
         IN  \E n \in 1..Len(conditions) :
                 /\ conditions[n].Type = "Available"
                 /\ conditions[n].Status = "True"

----------------------------------------------------------------------------
(* the Service composer *)

Service_createResource(s) ==
    LET x == s.FunctionContext.XR
    IN  IF x.Spec.Port = Nil THEN Nil
        ELSE Ptr([Kind |-> "Service",
                  Name |-> x.Name,
                  Type |-> "ClusterIP",
                  Selector |-> x.Name,
                  Ports |-> <<[Name |-> "http",
                               Protocol |-> "TCP",
                               Port |-> ServiceListenPort,
                               TargetPort |-> Int32(Deref(x.Spec.Port))]>>])

\* Mutant of Service_IsReady: a service that was never observed is ready.
Service_IsReady_UnobservedIsReady(s) ==
    IF s.ObservedResource = Nil THEN TRUE
    ELSE Deref(s.ObservedResource).clusterIP # ""

\* Mutant of Service_IsReady: an observed service is ready, whatever its
\* cluster IP.
Service_IsReady_ObservedIsReady(s) == s.ObservedResource # Nil

Service_IsReady(s) ==
    IF s.ObservedResource = Nil THEN FALSE
    ELSE Deref(s.ObservedResource).clusterIP # ""

----------------------------------------------------------------------------
(* fn-httproute.go *)

\* The HTTPRoute that HttpRoute.createResource returns when it returns one.
\* Mutant of HttpRoute_object: the backend is named by the service's
\* resource name.
HttpRoute_object_BackendByResourceName(x, gateway) ==
    [Kind |-> "HTTPRoute",
     Name |-> x.Name,
     ParentRefs |-> <<[Name |-> gateway.Name, Namespace |-> gateway.Namespace]>>,
     Hostnames |-> <<x.Spec.Hostname>>,
     Rules |-> <<[BackendRefs |-> <<[Name |-> ResourceNameOf("service", x.Name),
                                     Port |-> BackendPort]>>]>>]

HttpRoute_object(x, gateway) ==
    [Kind |-> "HTTPRoute",
     Name |-> x.Name,
     ParentRefs |-> <<[Name |-> gateway.Name, Namespace |-> gateway.Namespace]>>,
     Hostnames |-> <<x.Spec.Hostname>>,
     Rules |-> <<[BackendRefs |-> <<[Name |-> x.Name, Port |-> BackendPort]>>]>>]

\* Mutant of HttpRoute_createResource: the hostname is not looked at.
HttpRoute_createResource_NoHostnameCheck(h) ==
    LET x == h.FunctionContext.XR
        defaults == h.FunctionContext.Defaults
    IN  IF defaults = Nil \/ Deref(defaults).Gateway = Nil THEN Nil
        ELSE IF x.Spec.Port = Nil THEN Nil
        ELSE Ptr(HttpRoute_object(x, Deref(Deref(defaults).Gateway)))

\* Mutant of HttpRoute_createResource: the port is not looked at.
HttpRoute_createResource_NoPortCheck(h) ==
    LET x == h.FunctionContext.XR
        defaults == h.FunctionContext.Defaults
    IN  IF defaults = Nil \/ Deref(defaults).Gateway = Nil THEN Nil
        ELSE IF x.Spec.Hostname = "" THEN Nil
        ELSE Ptr(HttpRoute_object(x, Deref(Deref(defaults).Gateway)))

\* Mutant of HttpRoute_createResource: a gateway without a name or without a
\* namespace disables the route.
HttpRoute_createResource_NamedGateway(h) ==
    LET x == h.FunctionContext.XR
        defaults == h.FunctionContext.Defaults
    IN  IF defaults = Nil \/ Deref(defaults).Gateway = Nil THEN Nil
        ELSE IF \/ Deref(Deref(defaults).Gateway).Name = ""
                \/ Deref(Deref(defaults).Gateway).Namespace = "" THEN Nil
        ELSE IF x.Spec.Port = Nil \/ x.Spec.Hostname = "" THEN Nil
        ELSE Ptr(HttpRoute_object(x, Deref(Deref(defaults).Gateway)))

HttpRoute_createResource(h) ==
    LET x == h.FunctionContext.XR
        defaults == h.FunctionContext.Defaults
    IN  IF defaults = Nil \/ Deref(defaults).Gateway = Nil THEN Nil
        ELSE LET gateway == Deref(Deref(defaults).Gateway)
             IN  IF x.Spec.Port = Nil \/ x.Spec.Hostname = "" THEN Nil
                 ELSE Ptr(HttpRoute_object(x, gateway))

\* Mutant of HttpRoute_IsReady: only the first parent is read.
HttpRoute_IsReady_FirstParentOnly(h) ==
    IF h.ObservedResource = Nil THEN FALSE
    ELSE LET parents == Deref(h.ObservedResource).parents
         IN  /\ parents # <<>>
             /\ \E n \in 1..Len(parents[1]) :
                    /\ parents[1][n].Type = "Accepted"
                    /\ parents[1][n].Status = "True"

\* Mutant of HttpRoute_IsReady: the route is ready only once the service it
\* points at was observed too.
HttpRoute_IsReady_NeedsService(h) ==
    IF h.ObservedResource = Nil THEN FALSE
    ELSE LET parents == Deref(h.ObservedResource).parents
         IN  /\ ResourceNameOf("service", h.FunctionContext.XR.Name)
                    \in DOMAIN h.FunctionContext.Observed
             /\ \E p \in 1..Len(parents) :
                    \E n \in 1..Len(parents[p]) :
                        /\ parents[p][n].Type = "Accepted"
                        /\ parents[p][n].Status = "True"

HttpRoute_IsReady(h) ==
    IF h.ObservedResource = Nil THEN FALSE
    ELSE LET parents == Deref(h.ObservedResource).parents
         IN  \E p \in 1..Len(parents) :
                 \E n \in 1..Len(parents[p]) :
                     /\ parents[p][n].Type = "Accepted"
                     /\ parents[p][n].Status = "True"

----------------------------------------------------------------------------
(* Dispatch through the ComposableResource interface *)

createResource(r) ==
    CASE r.Kind = "deployment" -> Deployment_createResource(r)
      [] r.Kind = "service"    -> Service_createResource(r)
      [] r.Kind = "httproute"  -> HttpRoute_createResource(r)

ComposeDesiredResource(r, fromFails) ==
    ComposeDesiredResourceFrom(r, createResource(r), fromFails)

IsReady(r) ==
    CASE r.Kind = "deployment" -> Deployment_IsReady(r)
      [] r.Kind = "service"    -> Service_IsReady(r)
      [] r.Kind = "httproute"  -> HttpRoute_IsReady(r)

----------------------------------------------------------------------------
(* The requests of the model *)

Cond(t, st) == [Type |-> t, Status |-> st]

\* An observed composed resource as the request carries it: whether it
\* decodes into its Go type, and the status fields the composers read.
Obs(corrupt, conditions, clusterIP, parents) ==
    [corrupt |-> corrupt, conditions |-> conditions,
     clusterIP |-> clusterIP, parents |-> parents]

\* Per kind: an object that does not decode, one that is not ready and one
\* that is ready.
ObservedChoices(kind) ==
    CASE kind = "deployment" ->
            <<Obs(TRUE, <<>>, "", <<>>),
              Obs(FALSE, <<Cond("Available", "False")>>, "", <<>>),
              Obs(FALSE, <<Cond("Progressing", "True"), Cond("Available", "True")>>,
                  "", <<>>)>>
      [] kind = "service" ->
            <<Obs(TRUE, <<>>, "", <<>>),
              Obs(FALSE, <<>>, "", <<>>),
              Obs(FALSE, <<>>, "10.0.0.1", <<>>)>>
      [] kind = "httproute" ->
            <<Obs(TRUE, <<>>, "", <<>>),
              Obs(FALSE, <<>>, "", <<<<Cond("Accepted", "False")>>>>),
              Obs(FALSE, <<>>, "",
                  <<<<Cond("Accepted", "False")>>, <<Cond("Accepted", "True")>>>>)>>

\* The observed resources are stored under the names of this XR.
ObservedName == "app"

ObservedMapOf(c) ==
    [n \in {ResourceNameOf(Kinds[k], ObservedName) : k \in {j \in 1..3 : c[j] # 0}} |->
        LET k == CHOOSE j \in 1..3 : n = ResourceNameOf(Kinds[j], ObservedName)
        IN  ObservedChoices(Kinds[k])[c[k]]]

ObservedMaps == {ObservedMapOf(c) : c \in [1..3 -> 0..3]}

SpecNames == {"app", "web"}

XDeployments ==
    {[Name |-> n,
      Spec |-> [Image |-> "nginx:latest", Replicas |-> Nil, Port |-> p,
                Hostname |-> h, Env |-> EmptyMap]] :
        n \in SpecNames, p \in {Nil, Ptr(GoInt(0, 3000))}, h \in {"", "test.example.com"}}

\* var xd xdeployment.XDeployment
ZeroXDeployment ==
    [Name |-> "",
     Spec |-> [Image |-> "", Replicas |-> Nil, Port |-> Nil, Hostname |-> "",
               Env |-> EmptyMap]]

GatewayConfigs ==
    {Nil} \cup {Ptr([Name |-> n, Namespace |-> ns]) :
                    n \in {"", "my-gateway"}, ns \in {"", "gateway-ns"}}

XDeploymentDefaults == {[Gateway |-> g] : g \in GatewayConfigs}

\* The desired resources a caller may supply: under the engine's names for
\* ObservedName, and under foreign names.
CallerBody == [Kind |-> "ConfigMap", Name |-> "caller"]

ForeignName(k) == "other-" \o ToString(k)

InboundNames ==
    {ResourceNameOf("service", ObservedName), ResourceNameOf("httproute", ObservedName)}
        \cup {ForeignName(k) : k \in 1..MaxForeign}

DesiredMaps ==
    {[n \in S |-> [Resource |-> CallerBody, Ready |-> ReadyTrue]] : S \in SUBSET InboundNames}

\* A request: each part with the flag `ok` telling whether the SDK decodes it
\* (GetInput, GetObservedComposedResources, GetDesiredComposedResources,
\* GetObservedCompositeResource) and, for the composite, whether it converts
\* to an XDeployment.
\* An XR named otherwise than ObservedName finds none of the observed
\* resources under its names: two observed sets cover that.
WellFormedRequests ==
    {r \in [input     : [ok : {TRUE}, value : XDeploymentDefaults],
            observed  : [ok : {TRUE}, resources : ObservedMaps],
            desired   : [ok : {TRUE}, resources : DesiredMaps],
            composite : [ok : {TRUE}, converts : {TRUE}, value : XDeployments]] :
        \/ r.composite.value.Name = ObservedName
        \/ r.observed.resources \in {ObservedMapOf(<<1, 1, 1>>),
                                     ObservedMapOf(<<3, 3, 3>>)}}

FullXDeployment ==
    [Name |-> "app",
     Spec |-> [Image |-> "nginx:latest", Replicas |-> Nil, Port |-> Ptr(GoInt(0, 3000)),
               Hostname |-> "test.example.com", Env |-> EmptyMap]]

FullDefaults == [Gateway |-> Ptr([Name |-> "my-gateway", Namespace |-> "gateway-ns"])]

\* Requests with at least one part that does not decode.
MalformedRequests ==
    {r \in [input     : [ok : BOOLEAN, value : {FullDefaults}],
            observed  : [ok : BOOLEAN,
                         resources : {EmptyMap, ObservedMapOf(<<3, 3, 3>>)}],
            desired   : [ok : BOOLEAN, resources : DesiredMaps],
            composite : [ok : BOOLEAN, converts : BOOLEAN,
                         value : {FullXDeployment}]] :
        ~(r.input.ok /\ r.observed.ok /\ r.desired.ok
            /\ r.composite.ok /\ r.composite.converts)}

Requests == WellFormedRequests \cup MalformedRequests

NoResponse == [desired |-> EmptyMap, conditions |-> <<>>, results |-> <<>>]

\* No composer or helper is called on its own.
NoCall == [fn |-> "none"]
NoResult == [returned |-> FALSE]

Init ==
    /\ req \in Requests
    /\ pc = "start"
    /\ rsp = NoResponse
    /\ ret = "none"
    /\ defaultValues = Nil
    /\ observed = EmptyMap
    /\ desired = EmptyMap
    /\ xd = ZeroXDeployment
    /\ resources = <<>>
    /\ i = 1
    /\ prev = Nil
    /\ call = NoCall
    /\ out = NoResult

----------------------------------------------------------------------------
(* RunFunction, fn.go:57-174 *)

\* return rsp, nil after InternalErrorResponse(rsp, err)
ReturnInternalError(r, msg) ==
    /\ rsp' = InternalErrorResponse(r, msg)
    /\ ret' = "rsp"
    /\ pc' = "done"

\* fn.go:60-67: request.GetInput fails.
GetInputFails ==
    /\ pc = "start"
    /\ ~req.input.ok
    /\ ReturnInternalError(ResponseTo(req), "cannot get Function input")
    /\ defaultValues' = Ptr([Gateway |-> Nil])
    /\ UNCHANGED <<prev, call, out, req, observed, desired, xd, resources, i>>

\* fn.go:70-74: request.GetObservedComposedResources fails.
GetObservedFails ==
    /\ pc = "start"
    /\ req.input.ok
    /\ ~req.observed.ok
    /\ ReturnInternalError(ResponseTo(req), "cannot get observed resources")
    /\ defaultValues' = Ptr(req.input.value)
    /\ UNCHANGED <<prev, call, out, req, observed, desired, xd, resources, i>>

\* fn.go:77-81: request.GetDesiredComposedResources fails.
GetDesiredFails ==
    /\ pc = "start"
    /\ req.input.ok /\ req.observed.ok
    /\ ~req.desired.ok
    /\ ReturnInternalError(ResponseTo(req), "cannot get desired resources")
    /\ defaultValues' = Ptr(req.input.value)
    /\ observed' = req.observed.resources
    /\ UNCHANGED <<prev, call, out, req, desired, xd, resources, i>>

\* fn.go:84-88: request.GetObservedCompositeResource fails.
GetCompositeFails ==
    /\ pc = "start"
    /\ req.input.ok /\ req.observed.ok /\ req.desired.ok
    /\ ~req.composite.ok
    /\ ReturnInternalError(ResponseTo(req), "cannot get observedf composite resources")
    /\ defaultValues' = Ptr(req.input.value)
    /\ observed' = req.observed.resources
    /\ desired' = req.desired.resources
    /\ UNCHANGED <<prev, call, out, req, xd, resources, i>>

\* fn.go:91-95: the composite does not convert to an XDeployment.
ConvertFails ==
    /\ pc = "start"
    /\ req.input.ok /\ req.observed.ok /\ req.desired.ok /\ req.composite.ok
    /\ ~req.composite.converts
    /\ ReturnInternalError(ResponseTo(req),
                           "cannot convert composite resource to XDeployment")
    /\ defaultValues' = Ptr(req.input.value)
    /\ observed' = req.observed.resources
    /\ desired' = req.desired.resources
    /\ UNCHANGED <<prev, call, out, req, xd, resources, i>>

\* Mutant of Decode: the desired resources start empty, in the response
\* too.
Decode_FreshDesired ==
    /\ pc = "start"
    /\ req.input.ok /\ req.observed.ok /\ req.desired.ok
    /\ req.composite.ok /\ req.composite.converts
    /\ rsp' = [ResponseTo(req) EXCEPT !.desired = EmptyMap]
    /\ defaultValues' = Ptr(req.input.value)
    /\ observed' = req.observed.resources
    /\ desired' = EmptyMap
    /\ xd' = req.composite.value
    /\ pc' = "construct"
    /\ UNCHANGED <<prev, call, out, req, ret, resources, i>>

\* fn.go:60-95: every part of the request decodes.
Decode ==
    /\ pc = "start"
    /\ req.input.ok /\ req.observed.ok /\ req.desired.ok
    /\ req.composite.ok /\ req.composite.converts
    /\ rsp' = ResponseTo(req)
    /\ defaultValues' = Ptr(req.input.value)
    /\ observed' = req.observed.resources
    /\ desired' = req.desired.resources
    /\ xd' = req.composite.value
    /\ pc' = "construct"
    /\ UNCHANGED <<prev, call, out, req, ret, resources, i>>

\* fn.go:105-111
fnContext == [Observed |-> observed, XR |-> xd, Defaults |-> defaultValues]

\* return rsp, nil after response.Fatal(rsp, err)
ReturnFatal(msg) ==
    /\ rsp' = Fatal(rsp, msg)
    /\ ret' = "rsp"
    /\ pc' = "done"
    /\ UNCHANGED <<prev, call, out, req, defaultValues, observed, desired, xd, resources, i>>

\* fn.go:114-118
NewDeploymentFails ==
    /\ pc = "construct"
    /\ NewDeployment(fnContext).err
    /\ ReturnFatal("cannot create deployment")

\* fn.go:120-124
NewServiceFails ==
    /\ pc = "construct"
    /\ ~NewDeployment(fnContext).err
    /\ NewService(fnContext).err
    /\ ReturnFatal("cannot create service")

\* fn.go:126-130
NewHttpRouteFails ==
    /\ pc = "construct"
    /\ ~NewDeployment(fnContext).err
    /\ ~NewService(fnContext).err
    /\ NewHttpRoute(fnContext).err
    /\ ReturnFatal("cannot create httpRoute")

\* Mutant of Construct: the service composer is collected first.
Construct_ServiceFirst ==
    /\ pc = "construct"
    /\ ~NewDeployment(fnContext).err
    /\ ~NewService(fnContext).err
    /\ ~NewHttpRoute(fnContext).err
    /\ resources' = <<Deref(NewService(fnContext).composer),
                      Deref(NewDeployment(fnContext).composer),
                      Deref(NewHttpRoute(fnContext).composer)>>
    /\ i' = 1
    /\ pc' = "compose"
    /\ UNCHANGED <<prev, call, out, req, rsp, ret, defaultValues, observed, desired, xd>>

\* fn.go:114-137: the three composers are constructed and collected.
Construct ==
    /\ pc = "construct"
    /\ ~NewDeployment(fnContext).err
    /\ ~NewService(fnContext).err
    /\ ~NewHttpRoute(fnContext).err
    /\ resources' = <<Deref(NewDeployment(fnContext).composer),
                      Deref(NewService(fnContext).composer),
                      Deref(NewHttpRoute(fnContext).composer)>>
    /\ i' = 1
    /\ pc' = "compose"
    /\ UNCHANGED <<prev, call, out, req, rsp, ret, defaultValues, observed, desired, xd>>

\* Mutant of NextComposer: the loop leaves before the last composer.
NextComposer_OffByOne ==
    /\ i' = i + 1
    /\ pc' = IF i >= Len(resources) - 1 THEN "set" ELSE "compose"

\* Mutant of NextComposer: the first composer is run again while the
\* response has no condition.
NextComposer_RunsFirstAgain ==
    /\ i' = IF i = 1 /\ rsp.conditions = <<>> THEN i ELSE i + 1
    /\ pc' = IF i = Len(resources) THEN "set" ELSE "compose"

\* The loop moves to the next composer, or leaves for fn.go:168.
NextComposer ==
    /\ i' = i + 1
    /\ pc' = IF i = Len(resources) THEN "set" ELSE "compose"

\* fn.go:141-147: ComposeDesiredResource returns an error (composed.From
\* failed, composer.go:72-77): the response gets a Fatal result and a
\* CompositionError condition, and RunFunction returns (nil, err).
ComposeFails ==
    /\ pc = "compose"
    /\ LET r == resources[i]
       IN  /\ ComposeDesiredResource(r, TRUE).err
           /\ rsp' = ConditionFalse(Fatal(rsp, "cannot convert to composed resource"),
                                    GetConditionType(r), "CompositionError",
                                    "cannot convert to composed resource",
                                    TargetComposite)
    /\ ret' = "err"
    /\ pc' = "done"
    /\ UNCHANGED <<prev, call, out, req, defaultValues, observed, desired, xd, resources, i>>

\* Mutant of ComposeSkips: an absent resource is reported as unavailable.
ComposeSkips_Reported ==
    /\ pc = "compose"
    /\ LET c == ComposeDesiredResource(resources[i], FALSE)
       IN  ~c.err /\ c.res = Nil
    /\ rsp' = ConditionFalse(rsp, GetConditionType(resources[i]), "Unavailable",
                             GetConditionType(resources[i]) \o " is not yet available",
                             TargetComposite)
    /\ i' = i + 1
    /\ pc' = IF i = Len(resources) THEN "set" ELSE "compose"
    /\ UNCHANGED <<prev, call, out, req, ret, defaultValues, observed, desired, xd, resources>>

\* fn.go:149-151: nothing to compose for this composer.
ComposeSkips ==
    /\ pc = "compose"
    /\ LET c == ComposeDesiredResource(resources[i], FALSE)
       IN  ~c.err /\ c.res = Nil
    /\ NextComposer
    /\ UNCHANGED <<prev, call, out, req, rsp, ret, defaultValues, observed, desired, xd, resources>>

\* desired[desiredResource.Name] = desiredResource.Resource
\* Mutant of AddDesired: a resource the caller already desired under the name
\* is marked ready.
AddDesired_ReadyOnceDesired(d, desiredResource) ==
    IF desiredResource.Name \in DOMAIN d
    THEN MapPut(d, desiredResource.Name,
                [desiredResource.Resource EXCEPT !.Ready = ReadyTrue])
    ELSE MapPut(d, desiredResource.Name, desiredResource.Resource)

\* Mutant of AddDesired: an entry the caller supplied under the name is kept.
AddDesired_KeepExisting(d, desiredResource) ==
    IF desiredResource.Name \in DOMAIN d
    THEN d
    ELSE MapPut(d, desiredResource.Name, desiredResource.Resource)

\* Mutant of AddDesired: the readyFlag of an entry the caller supplied under
\* the name is kept.
AddDesired_KeepReady(d, desiredResource) ==
    IF desiredResource.Name \in DOMAIN d
    THEN MapPut(d, desiredResource.Name,
                [desiredResource.Resource EXCEPT !.Ready = d[desiredResource.Name].Ready])
    ELSE MapPut(d, desiredResource.Name, desiredResource.Resource)

AddDesired(d, desiredResource) ==
    MapPut(d, desiredResource.Name, desiredResource.Resource)

\* Mutant of ComposeReady: the condition is set but the resource is not
\* marked ready.
ComposeReady_FlagNotSet ==
    /\ pc = "compose"
    /\ LET r == resources[i]
           c == ComposeDesiredResource(r, FALSE)
       IN  /\ ~c.err /\ c.res # Nil
           /\ IsReady(r)
           /\ rsp' = ConditionTrue(rsp, GetConditionType(r), "Available",
                                   TargetComposite)
           /\ desired' = MapPut(desired, Deref(c.res).Name, Deref(c.res).Resource)
    /\ i' = i + 1
    /\ pc' = IF i = Len(resources) THEN "set" ELSE "compose"
    /\ UNCHANGED <<prev, call, out, req, ret, defaultValues, observed, xd, resources>>

\* fn.go:153-156, 163-164: the observed resource is ready.
ComposeReady ==
    /\ pc = "compose"
    /\ LET r == resources[i]
           c == ComposeDesiredResource(r, FALSE)
       IN  /\ ~c.err /\ c.res # Nil
           /\ IsReady(r)
           /\ rsp' = ConditionTrue(rsp, GetConditionType(r), "Available",
                                   TargetComposite)
           /\ desired' = AddDesired(desired,
                  [Deref(c.res) EXCEPT !.Resource.Ready = ReadyTrue])
    /\ NextComposer
    /\ UNCHANGED <<prev, call, out, req, ret, defaultValues, observed, xd, resources>>

\* fn.go:157-164: the observed resource is not ready.
ComposeUnready ==
    /\ pc = "compose"
    /\ LET r == resources[i]
           c == ComposeDesiredResource(r, FALSE)
       IN  /\ ~c.err /\ c.res # Nil
           /\ ~IsReady(r)
           /\ rsp' = ConditionFalse(rsp, GetConditionType(r), "Unavailable",
                                    GetConditionType(r) \o " is not yet available",
                                    TargetComposite)
           /\ desired' = AddDesired(desired, Deref(c.res))
    /\ NextComposer
    /\ UNCHANGED <<prev, call, out, req, ret, defaultValues, observed, xd, resources>>

\* response.SetDesiredComposedResources writing the entries `written` of dcds
\* into the response.
SetDesiredComposedResources(r, dcds, written) ==
    [r EXCEPT !.desired =
        [n \in (DOMAIN r.desired) \cup written |->
            IF n \in written THEN dcds[n] ELSE r.desired[n]]]

\* fn.go:168-173: the desired resources are set on the response.
SetDesired ==
    /\ pc = "set"
    /\ rsp' = SetDesiredComposedResources(rsp, desired, DOMAIN desired)
    /\ ret' = "rsp"
    /\ pc' = "done"
    /\ UNCHANGED <<prev, call, out, req, defaultValues, observed, desired, xd, resources, i>>

\* fn.go:168-171: SetDesiredComposedResources fails at one entry, after it
\* wrote some of the others (the order of a Go map's entries is not fixed).
SetDesiredFails ==
    /\ pc = "set"
    /\ \E written \in SUBSET (DOMAIN desired) :
        /\ written # DOMAIN desired
        /\ ReturnInternalError(
               SetDesiredComposedResources(rsp, desired, written),
               "cannot set desired composed resources")
    /\ UNCHANGED <<prev, call, out, req, defaultValues, observed, desired, xd, resources, i>>

Next ==
    \/ GetInputFails
    \/ GetObservedFails
    \/ GetDesiredFails
    \/ GetCompositeFails
    \/ ConvertFails
    \/ Decode
    \/ NewDeploymentFails
    \/ NewServiceFails
    \/ NewHttpRouteFails
    \/ Construct
    \/ ComposeFails
    \/ ComposeSkips
    \/ ComposeReady
    \/ ComposeUnready
    \/ SetDesired
    \/ SetDesiredFails

Spec == Init /\ [][Next]_vars

----------------------------------------------------------------------------
(* Two invocations in a row *)

\* The requests of the first of two invocations: those that do not decode,
\* and those for the XR the observed resources belong to whose inbound
\* desired set has entries under the engine's names only.
FirstRequests ==
    {r \in Requests :
        \/ r \in MalformedRequests
        \/ /\ r.composite.value.Name = ObservedName
           /\ DOMAIN r.desired.resources \subseteq
                  {ResourceNameOf(Kinds[k], ObservedName) : k \in 1..3}}

InitAgain ==
    /\ Init
    /\ req \in FirstRequests

\* The Function holds no state of an invocation (fn.go:24-27): the caller
\* invokes RunFunction again for the same XR, static config and observed
\* set, with any desired set, the one the first invocation returned included.
Reinvoke ==
    /\ pc = "done"
    /\ ret = "rsp"
    /\ \A n \in 1..Len(rsp.results) : rsp.results[n].Severity # "Fatal"
    /\ prev = Nil
    /\ prev' = Ptr([req |-> req, rsp |-> rsp])
    /\ \E d \in DesiredMaps \cup {rsp.desired} :
           req' = [req EXCEPT !.desired.resources = d]
    /\ pc' = "start"
    /\ rsp' = NoResponse
    /\ ret' = "none"
    /\ defaultValues' = Nil
    /\ observed' = EmptyMap
    /\ desired' = EmptyMap
    /\ xd' = ZeroXDeployment
    /\ resources' = <<>>
    /\ i' = 1
    /\ UNCHANGED <<call, out>>

NextAgain ==
    \/ Next
    \/ Reinvoke

SpecAgain == InitAgain /\ [][NextAgain]_vars

----------------------------------------------------------------------------
(* The deployment composer and convertEnvVars called on their own, as the  *)
(* unit tests call them                                                    *)

MaxEnvVars == 3        \* the most entries of an env map
MaxReplicas == 2       \* spec.replicas ranges over -MaxReplicas..MaxReplicas
MaxConditions == 3     \* the most status conditions of an observed deployment

\* The keys of the env maps: "B", "BB", "Ba", "a" and "aB", which byte order
\* sorts in this order.
EnvKeys == {<<66>>, <<66, 66>>, <<66, 97>>, <<97>>, <<97, 66>>}

\* The value stored under a key: "=" followed by the key.
EnvValue(key) == <<61>> \o key

\* map[string]string: nil and the empty map have no key.
EnvMaps ==
    {[k \in S |-> EnvValue(k)] : S \in {T \in SUBSET EnvKeys : Cardinality(T) <= MaxEnvVars}}

\* TestConvertEnvVars: a map and an order in which range visits its keys.
ConvertEnvVarsCalls ==
    UNION {{[fn |-> "convertEnvVars", envMap |-> m, visited |-> v] :
                v \in Enumerations(DOMAIN m)} : m \in EnvMaps}

\* TestDeployment_createResource: the XRs the deployment is built for.
UnitXDeployments ==
    {[Name |-> "my-app",
      Spec |-> [Image |-> img, Replicas |-> r, Port |-> p, Hostname |-> "",
                Env |-> e]] :
        img \in {"", "myimage:v1"},
        r \in {Nil} \cup {Ptr(n) : n \in (0 - MaxReplicas)..MaxReplicas},
        p \in {Nil, Ptr(GoInt(0, 3000))},
        e \in {EmptyMap, [k \in {<<66>>, <<97>>} |-> EnvValue(k)]}}

createResourceCalls ==
    {[fn |-> "Deployment.createResource",
      f |-> [Observed |-> EmptyMap, XR |-> x, Defaults |-> Nil]] :
        x \in UnitXDeployments}

\* TestDeployment_IsReady: the status conditions of an observed deployment.
StatusConditions ==
    {Cond(t, st) : t \in {"Available", "Progressing"},
                   st \in {"True", "False", "Unknown"}}

ConditionLists == UNION {[1..n -> StatusConditions] : n \in 0..MaxConditions}

\* No observed deployment, or one with a list of status conditions.
IsReadyCalls ==
    {[fn |-> "Deployment.IsReady",
      f |-> [Observed |-> o, XR |-> FullXDeployment, Defaults |-> Nil]] :
        o \in {EmptyMap} \cup
              {MapPut(EmptyMap, ResourceNameOf("deployment", FullXDeployment.Name),
                      Obs(FALSE, c, "", <<>>)) : c \in ConditionLists}}

\* TestService_IsReady: no observed service, or one with a cluster IP; an
\* observed deployment is not an observed service.
ServiceIsReadyCalls ==
    {[fn |-> "Service.IsReady",
      f |-> [Observed |-> o, XR |-> FullXDeployment, Defaults |-> Nil]] :
        o \in {EmptyMap,
               MapPut(EmptyMap, ResourceNameOf("deployment", FullXDeployment.Name),
                      Obs(FALSE, <<Cond("Available", "True")>>, "", <<>>))}
              \cup
              {MapPut(EmptyMap, ResourceNameOf("service", FullXDeployment.Name),
                      Obs(FALSE, <<>>, ip, <<>>)) : ip \in {"", "10.0.0.1", "None"}}}

MaxParents == 2        \* the most parent status entries of an observed route

\* TestHttpRoute_IsReady: the conditions one parent reports.
ParentConditions ==
    {<<>>,
     <<Cond("Accepted", "False")>>,
     <<Cond("Accepted", "True")>>,
     <<Cond("Accepted", "Unknown")>>,
     <<Cond("ResolvedRefs", "True")>>,
     <<Cond("ResolvedRefs", "True"), Cond("Accepted", "True")>>,
     <<Cond("Accepted", "False"), Cond("ResolvedRefs", "True")>>}

ParentLists == UNION {[1..n -> ParentConditions] : n \in 0..MaxParents}

\* No observed route, or one with a list of parent status entries.
HttpRouteIsReadyCalls ==
    {[fn |-> "HttpRoute.IsReady",
      f |-> [Observed |-> o, XR |-> FullXDeployment, Defaults |-> Ptr(FullDefaults)]] :
        o \in {EmptyMap} \cup
              {MapPut(EmptyMap, ResourceNameOf("httproute", FullXDeployment.Name),
                      Obs(FALSE, <<>>, "", ps)) : ps \in ParentLists}}

\* TestService_createResource: spec.port is a Go int (64 bits); unset, 3000,
\* 0, 65535, -1 and 2^32 + 3000.
UnitPorts ==
    {Nil, Ptr(GoInt(0, 3000)), Ptr(GoInt(0, 0)), Ptr(GoInt(0, 65535)),
     Ptr(GoInt(0 - 1, 65535)), Ptr(GoInt(65536, 3000))}

ServiceCreateResourceCalls ==
    {[fn |-> "Service.createResource",
      f |-> [Observed |-> EmptyMap,
             XR |-> [Name |-> "my-app",
                     Spec |-> [Image |-> "myimage:v1", Replicas |-> Nil, Port |-> p,
                               Hostname |-> h, Env |-> EmptyMap]],
             Defaults |-> Nil]] :
        p \in UnitPorts, h \in {"", "test.example.com"}}

\* TestBaseComposer_ComposeDesiredResourceFrom: nothing, a nil pointer, a
\* Service and a ConfigMap, for a composer with a resource name of its own;
\* composed.From converts the object or fails.
ComposeDesiredResourceFromCalls ==
    {[fn |-> "ComposeDesiredResourceFrom",
      b |-> [ResourceName |-> n, ConditionType |-> "TestReady"],
      structuredResource |-> sr,
      fromFails |-> ff] :
        n \in {"test-resource", "configmap-resource"},
        sr \in {UntypedNil, Nil,
                Ptr([Kind |-> "Service", Name |-> "test-service"]),
                Ptr([Kind |-> "ConfigMap", Name |-> "test-configmap"])},
        ff \in BOOLEAN}

UnitCalls ==
    ConvertEnvVarsCalls \cup createResourceCalls \cup IsReadyCalls
        \cup ServiceIsReadyCalls \cup HttpRouteIsReadyCalls
        \cup ServiceCreateResourceCalls \cup ComposeDesiredResourceFromCalls

NoRequest ==
    [input     |-> [ok |-> FALSE, value |-> FullDefaults],
     observed  |-> [ok |-> FALSE, resources |-> EmptyMap],
     desired   |-> [ok |-> FALSE, resources |-> EmptyMap],
     composite |-> [ok |-> FALSE, converts |-> FALSE, value |-> FullXDeployment]]

InitUnit ==
    /\ req = NoRequest
    /\ pc = "unit"
    /\ rsp = NoResponse
    /\ ret = "none"
    /\ defaultValues = Nil
    /\ observed = EmptyMap
    /\ desired = EmptyMap
    /\ xd = ZeroXDeployment
    /\ resources = <<>>
    /\ i = 1
    /\ prev = Nil
    /\ call \in UnitCalls
    /\ out = NoResult

Return(value) ==
    /\ out' = [returned |-> TRUE, value |-> value]
    /\ UNCHANGED <<prev, call, req, pc, rsp, ret, defaultValues, observed, desired,
                   xd, resources, i>>

\* got := convertEnvVars(tt.envMap)
CallConvertEnvVars ==
    /\ pc = "unit"
    /\ call.fn = "convertEnvVars"
    /\ ~out.returned
    /\ Return(convertEnvVarsFrom(call.envMap, call.visited))

\* got := d.createResource(), for the deployment composer of the context
CallCreateResource ==
    /\ pc = "unit"
    /\ call.fn = "Deployment.createResource"
    /\ ~out.returned
    /\ ~NewDeployment(call.f).err
    /\ Return(Deployment_createResource(Deref(NewDeployment(call.f).composer)))

\* got := d.IsReady(), for the deployment composer of the context
CallIsReady ==
    /\ pc = "unit"
    /\ call.fn = "Deployment.IsReady"
    /\ ~out.returned
    /\ ~NewDeployment(call.f).err
    /\ Return(Deployment_IsReady(Deref(NewDeployment(call.f).composer)))

\* got := s.IsReady(), for the service composer of the context
CallServiceIsReady ==
    /\ pc = "unit"
    /\ call.fn = "Service.IsReady"
    /\ ~out.returned
    /\ ~NewService(call.f).err
    /\ Return(Service_IsReady(Deref(NewService(call.f).composer)))

\* got := h.IsReady(), for the route composer of the context
CallHttpRouteIsReady ==
    /\ pc = "unit"
    /\ call.fn = "HttpRoute.IsReady"
    /\ ~out.returned
    /\ ~NewHttpRoute(call.f).err
    /\ Return(HttpRoute_IsReady(Deref(NewHttpRoute(call.f).composer)))

\* got := s.createResource(), for the service composer of the context
CallServiceCreateResource ==
    /\ pc = "unit"
    /\ call.fn = "Service.createResource"
    /\ ~out.returned
    /\ ~NewService(call.f).err
    /\ Return(Service_createResource(Deref(NewService(call.f).composer)))

\* got, err := b.ComposeDesiredResourceFrom(tt.structuredResource)
CallComposeDesiredResourceFrom ==
    /\ pc = "unit"
    /\ call.fn = "ComposeDesiredResourceFrom"
    /\ ~out.returned
    /\ Return(ComposeDesiredResourceFrom(call.b, call.structuredResource, call.fromFails))

NextUnit ==
    \/ CallConvertEnvVars
    \/ CallCreateResource
    \/ CallIsReady
    \/ CallServiceIsReady
    \/ CallHttpRouteIsReady
    \/ CallServiceCreateResource
    \/ CallComposeDesiredResourceFrom

SpecUnit == InitUnit /\ [][NextUnit]_vars

----------------------------------------------------------------------------
(* Vocabulary of the claims *)

\* RunFunction returned a response that carries no Fatal result.
Answered ==
    /\ pc = "done"
    /\ ret = "rsp"
    /\ \A n \in 1..Len(rsp.results) : rsp.results[n].Severity # "Fatal"

\* Some part of the request does not decode.
DecodeFailure ==
    ~(req.input.ok /\ req.observed.ok /\ req.desired.ok
        /\ req.composite.ok /\ req.composite.converts)

ReqSpec == req.composite.value.Spec
ReqGateway == req.input.value.Gateway
Inbound == req.desired.resources

\* The resource name of a kind for the request's XR.
NameOfKind(kind) == ResourceNameOf(kind, req.composite.value.Name)

\* The preconditions as the specification words them (section 4): the route
\* needs a gateway whose name and namespace are both present.
StatedPrecondition(kind) ==
    CASE kind = "deployment" -> TRUE
      [] kind = "service"    -> ReqSpec.Port # Nil
      [] kind = "httproute"  ->
            /\ ReqSpec.Port # Nil
            /\ ReqSpec.Hostname # ""
            /\ ReqGateway # Nil
            /\ Deref(ReqGateway).Name # ""
            /\ Deref(ReqGateway).Namespace # ""

\* The preconditions with the route needing only a gateway entry.
GatewayEntryPrecondition(kind) ==
    CASE kind = "deployment" -> TRUE
      [] kind = "service"    -> ReqSpec.Port # Nil
      [] kind = "httproute"  ->
            /\ ReqSpec.Port # Nil
            /\ ReqSpec.Hostname # ""
            /\ ReqGateway # Nil

ReadinessTypes == {"DeploymentReady", "ServiceReady", "HttpRouteReady"}

ConditionTypes(r) == {r.conditions[n].Type : n \in 1..Len(r.conditions)}

ConditionsOfType(r, type) ==
    {n \in 1..Len(r.conditions) : r.conditions[n].Type = type}

\* An entry of the response's desired set is the caller's own.
PassedThrough(name) ==
    /\ name \in DOMAIN Inbound
    /\ rsp.desired[name] = Inbound[name]

----------------------------------------------------------------------------
(* C1 *)

\* C1 as stated: in every response without a fatal result the desired set has
\* an entry under a kind's resource name iff the kind's stated precondition
\* holds, for any inbound desired set.
C1_AsStated ==
    Answered =>
        \A k \in 1..3 :
            (NameOfKind(Kinds[k]) \in DOMAIN rsp.desired) <=> StatedPrecondition(Kinds[k])

\* C1 amended: the desired set of a response without a fatal result has an
\* entry under a kind's resource name iff the kind is built (deployment
\* always, service with a port, route with a port, a hostname and a gateway
\* entry in the static config) or the inbound desired set already had an
\* entry under that name; an entry of a kind that is not built is the
\* caller's, unchanged.
C1_EntryIffBuiltOrInbound ==
    Answered =>
        \A k \in 1..3 :
            LET name == NameOfKind(Kinds[k])
            IN  /\ (name \in DOMAIN rsp.desired) <=>
                       (GatewayEntryPrecondition(Kinds[k]) \/ name \in DOMAIN Inbound)
                /\ (name \in DOMAIN rsp.desired /\ ~GatewayEntryPrecondition(Kinds[k]))
                       => PassedThrough(name)

C1_Witness ==
    /\ Answered
    /\ ReqSpec.Port # Nil /\ ReqSpec.Hostname = ""
    /\ NameOfKind("service") \in DOMAIN rsp.desired
    /\ NameOfKind("service") \notin DOMAIN Inbound
    /\ NameOfKind("httproute") \notin DOMAIN rsp.desired

----------------------------------------------------------------------------
(* C2 *)

\* C2 as stated: with port unset, a response without a fatal result has no
\* service entry and no httproute entry, and exactly one condition, of type
\* DeploymentReady.
C2_AsStated ==
    (Answered /\ ReqSpec.Port = Nil) =>
        /\ NameOfKind("service") \notin DOMAIN rsp.desired
        /\ NameOfKind("httproute") \notin DOMAIN rsp.desired
        /\ Len(rsp.conditions) = 1
        /\ rsp.conditions[1].Type = "DeploymentReady"

\* C2 amended: with port unset, a response without a fatal result has a
\* service or httproute entry only where the inbound desired set had one,
\* which is returned unchanged, and exactly one condition, of type
\* DeploymentReady.
C2_PortUnset ==
    (Answered /\ ReqSpec.Port = Nil) =>
        /\ \A kind \in {"service", "httproute"} :
               NameOfKind(kind) \in DOMAIN rsp.desired => PassedThrough(NameOfKind(kind))
        /\ Len(rsp.conditions) = 1
        /\ rsp.conditions[1].Type = "DeploymentReady"
        /\ NameOfKind("deployment") \in DOMAIN rsp.desired

C2_Witness ==
    /\ Answered
    /\ ReqSpec.Port = Nil /\ ReqSpec.Hostname # "" /\ ReqGateway # Nil
    /\ NameOfKind("service") \notin DOMAIN rsp.desired
    /\ NameOfKind("httproute") \notin DOMAIN rsp.desired
    /\ Len(rsp.conditions) = 1

----------------------------------------------------------------------------
(* C3 *)

\* C3 as stated: with port set and hostname empty, a response without a fatal
\* result has the deployment and service entries, no httproute entry, and
\* the condition types are exactly DeploymentReady and ServiceReady.
C3_AsStated ==
    (Answered /\ ReqSpec.Port # Nil /\ ReqSpec.Hostname = "") =>
        /\ NameOfKind("deployment") \in DOMAIN rsp.desired
        /\ NameOfKind("service") \in DOMAIN rsp.desired
        /\ NameOfKind("httproute") \notin DOMAIN rsp.desired
        /\ ConditionTypes(rsp) = {"DeploymentReady", "ServiceReady"}

\* C3 amended: with port set and hostname empty, a response without a fatal
\* result has the deployment and service entries, an httproute entry only
\* where the inbound desired set had one (returned unchanged), and the
\* condition types are exactly DeploymentReady and ServiceReady.
C3_PortNoHostname ==
    (Answered /\ ReqSpec.Port # Nil /\ ReqSpec.Hostname = "") =>
        /\ NameOfKind("deployment") \in DOMAIN rsp.desired
        /\ NameOfKind("service") \in DOMAIN rsp.desired
        /\ ~PassedThrough(NameOfKind("service"))
        /\ NameOfKind("httproute") \in DOMAIN rsp.desired
               => PassedThrough(NameOfKind("httproute"))
        /\ ConditionTypes(rsp) = {"DeploymentReady", "ServiceReady"}
        /\ Len(rsp.conditions) = 2

C3_Witness ==
    /\ Answered
    /\ ReqSpec.Port # Nil /\ ReqSpec.Hostname = "" /\ ReqGateway # Nil
    /\ NameOfKind("service") \in DOMAIN rsp.desired
    /\ NameOfKind("httproute") \notin DOMAIN rsp.desired
    /\ ConditionTypes(rsp) = {"DeploymentReady", "ServiceReady"}

----------------------------------------------------------------------------
(* C4 *)

\* C4: with port set, hostname non-empty and a gateway that has a name and a
\* namespace, a response without a fatal result has the deployment, service
\* and httproute entries, each the engine's own, and the condition types are
\* exactly DeploymentReady, ServiceReady and HttpRouteReady.
C4_AllThree ==
    (/\ Answered
     /\ ReqSpec.Port # Nil /\ ReqSpec.Hostname # ""
     /\ ReqGateway # Nil
     /\ Deref(ReqGateway).Name # "" /\ Deref(ReqGateway).Namespace # "") =>
        /\ \A k \in 1..3 :
               /\ NameOfKind(Kinds[k]) \in DOMAIN rsp.desired
               /\ ~PassedThrough(NameOfKind(Kinds[k]))
        /\ ConditionTypes(rsp) = ReadinessTypes
        /\ Len(rsp.conditions) = 3

C4_Witness ==
    /\ Answered
    /\ ReqSpec.Port # Nil /\ ReqSpec.Hostname # ""
    /\ ReqGateway = Ptr([Name |-> "my-gateway", Namespace |-> "gateway-ns"])
    /\ ConditionTypes(rsp) = ReadinessTypes
    /\ \A k \in 1..3 : NameOfKind(Kinds[k]) \in DOMAIN rsp.desired

----------------------------------------------------------------------------
(* C5 *)

\* The composers are constructed and composer k has been run by the loop.
Processed(k) == resources # <<>> /\ k < i

\* Build of composer k is non-absent.
Built(k) == ComposeDesiredResource(resources[k], FALSE).res # Nil

\* The loop has run the route composer to its end.
RouteDecided == Processed(3)

\* C5 as stated: the route composer's Build is non-absent iff port is set,
\* hostname is non-empty and the gateway's name and namespace are both
\* non-empty.
C5_AsStated ==
    resources # <<>> =>
        /\ Built(3) <=> StatedPrecondition("httproute")
        /\ RouteDecided =>
               ((ConditionsOfType(rsp, "HttpRouteReady") # {})
                    <=> StatedPrecondition("httproute"))

\* C5 amended: the route composer's Build is non-absent iff port is set,
\* hostname is non-empty and the static config has a gateway entry, whatever
\* the entry's name and namespace; otherwise the result is Absent and no
\* error is returned, and the loop emits a HttpRouteReady condition exactly
\* when it is non-absent.
C5_RouteBuiltIffGatewayEntry ==
    resources # <<>> =>
        /\ Built(3) <=> GatewayEntryPrecondition("httproute")
        /\ ~GatewayEntryPrecondition("httproute") =>
               ComposeDesiredResource(resources[3], TRUE) = [err |-> FALSE, res |-> Nil]
        /\ RouteDecided =>
               ((ConditionsOfType(rsp, "HttpRouteReady") # {})
                    <=> GatewayEntryPrecondition("httproute"))

C5_Witness ==
    /\ RouteDecided
    /\ ReqSpec.Port # Nil /\ ReqSpec.Hostname # ""
    /\ ReqGateway = Ptr([Name |-> "", Namespace |-> ""])
    /\ ConditionsOfType(rsp, "HttpRouteReady") # {}
    /\ NameOfKind("httproute") \in DOMAIN desired

----------------------------------------------------------------------------
(* C6 *)

ReadinessCondition(type, ready) ==
    IF ready
    THEN [Type |-> type, Status |-> "True", Reason |-> "Available",
          Message |-> "", Target |-> TargetComposite]
    ELSE [Type |-> type, Status |-> "False", Reason |-> "Unavailable",
          Message |-> type \o " is not yet available", Target |-> TargetComposite]

\* C6: for each composer the loop has run whose Build is non-absent, the
\* desired entry under its name is the built object with readyFlag true and
\* the condition (type, True, Available) when IsReady holds, and with
\* readyFlag false and the condition (type, False, Unavailable, "<type> is
\* not yet available") otherwise; in a response without a fatal result the
\* entry's readyFlag is true iff the condition's status is True.
C6_ReadyFlagAndCondition ==
    \A k \in 1..3 :
        (Processed(k) /\ Built(k)) =>
            LET r == resources[k]
                name == r.ResourceName
                type == r.ConditionType
                at == ConditionsOfType(rsp, type)
            IN  /\ Cardinality(at) = 1
                /\ \A n \in at : rsp.conditions[n] = ReadinessCondition(type, IsReady(r))
                /\ name \in DOMAIN desired
                /\ desired[name].Resource = Deref(createResource(r))
                /\ desired[name].Ready = IF IsReady(r) THEN ReadyTrue ELSE ReadyFalse
                /\ Answered =>
                       /\ name \in DOMAIN rsp.desired
                       /\ \A n \in at :
                              (rsp.desired[name].Ready = ReadyTrue)
                                  <=> (rsp.conditions[n].Status = "True")
                       /\ rsp.desired[name].Ready \in {ReadyTrue, ReadyFalse}

C6_Witness ==
    /\ Answered
    /\ Built(1) /\ Built(2)
    /\ IsReady(resources[1]) /\ ~IsReady(resources[2])
    /\ rsp.desired[resources[1].ResourceName].Ready = ReadyTrue
    /\ rsp.desired[resources[2].ResourceName].Ready = ReadyFalse
    /\ resources[2].ResourceName \in DOMAIN Inbound

----------------------------------------------------------------------------
(* C7 *)

\* C7: a composer whose Build is absent leaves no condition of its type and
\* no entry of its own (an entry under its name is the caller's, unchanged);
\* the loop is never ended by an absent composer; a readiness condition type
\* appears at most once and only for a composer whose Build is non-absent.
C7_AbsentIsSkipped ==
    /\ \A k \in 1..3 :
           (Processed(k) /\ ~Built(k)) =>
               LET name == resources[k].ResourceName
               IN  /\ ConditionsOfType(rsp, resources[k].ConditionType) = {}
                   /\ (name \in DOMAIN desired) <=> (name \in DOMAIN Inbound)
                   /\ name \in DOMAIN desired => desired[name] = Inbound[name]
                   /\ pc = "done" => ret = "rsp"
    /\ (pc = "done" /\ resources # <<>> /\ i <= 3) => (Built(i) /\ ret = "err")
    /\ \A k \in 1..3 :
           /\ Cardinality(ConditionsOfType(rsp, ConditionTypeOf(Kinds[k]))) <= 1
           /\ ConditionsOfType(rsp, ConditionTypeOf(Kinds[k])) # {}
                  => (resources # <<>> /\ Built(k))

C7_Witness ==
    /\ Answered
    /\ Processed(3)
    /\ ~Built(2) /\ Built(1) /\ ~Built(3)
    /\ ConditionTypes(rsp) = {"DeploymentReady"}
    /\ resources[2].ResourceName \notin DOMAIN rsp.desired

----------------------------------------------------------------------------
(* C8 *)

Rank(type) == CHOOSE k \in 1..3 : ConditionTypeOf(Kinds[k]) = type

\* C8: the readiness conditions of the response are in the order
\* DeploymentReady, ServiceReady, HttpRouteReady, whichever are present.
C8_ConditionOrder ==
    \A a, b \in 1..Len(rsp.conditions) :
        (/\ a < b
         /\ rsp.conditions[a].Type \in ReadinessTypes
         /\ rsp.conditions[b].Type \in ReadinessTypes)
            => Rank(rsp.conditions[a].Type) < Rank(rsp.conditions[b].Type)

C8_Witness ==
    /\ Answered
    /\ Len(rsp.conditions) = 3
    /\ rsp.conditions[1].Type = "DeploymentReady"
    /\ rsp.conditions[2].Type = "ServiceReady"
    /\ rsp.conditions[3].Type = "HttpRouteReady"

----------------------------------------------------------------------------
(* C9 *)

\* C9: when a part of the request does not decode, RunFunction returns a
\* response with exactly one condition, FunctionSuccess = False with reason
\* InternalError targeting composite and claim, and exactly one result, of
\* severity Fatal; no composer was constructed or run.
C9_DecodeFailureIsFatal ==
    (pc = "done" /\ DecodeFailure) =>
        /\ ret = "rsp"
        /\ rsp.conditions =
               <<[Type |-> "FunctionSuccess", Status |-> "False",
                  Reason |-> "InternalError", Message |-> "",
                  Target |-> TargetCompositeAndClaim]>>
        /\ Len(rsp.results) = 1
        /\ rsp.results[1].Severity = "Fatal"
        /\ resources = <<>>
        /\ i = 1

C9_Witness ==
    /\ pc = "done"
    /\ req.input.ok /\ req.observed.ok /\ ~req.desired.ok
    /\ Len(rsp.conditions) = 1
    /\ Len(rsp.results) = 1

----------------------------------------------------------------------------
(* C10 *)

\* The static config, the observed set or the spec does not decode.
InputDecodeFailure ==
    ~(req.input.ok /\ req.observed.ok /\ req.composite.ok /\ req.composite.converts)

\* C10 as stated: when the static config, the observed set or the spec does
\* not decode, the response has no desired objects at all.
C10_AsStated ==
    (pc = "done" /\ InputDecodeFailure) => rsp.desired = EmptyMap

\* C10 amended: when the static config, the observed set or the spec does
\* not decode, the desired set of the response is the inbound desired set of
\* the request, unchanged: nothing is built or added, and it is empty only
\* when the inbound desired set is.
C10_DecodeFailureReturnsInbound ==
    (pc = "done" /\ InputDecodeFailure) =>
        /\ ret = "rsp"
        /\ rsp.desired = Inbound
        /\ desired \in {EmptyMap, Inbound}

C10_Witness ==
    /\ pc = "done"
    /\ req.input.ok /\ ~req.observed.ok
    /\ Inbound # EmptyMap
    /\ rsp.desired = Inbound

----------------------------------------------------------------------------
(* C11 *)

\* The observed object under one of the three resource names of the XR does
\* not decode.
ObservedUndecodable ==
    \E k \in 1..3 :
        /\ NameOfKind(Kinds[k]) \in DOMAIN req.observed.resources
        /\ req.observed.resources[NameOfKind(Kinds[k])].corrupt

\* C11 as stated: when the observed object under one of the three resource
\* names does not decode, RunFunction stops at the constructors, before any
\* build or readiness check (no composer ran, no readiness condition, the
\* desired set holds nothing but the inbound entries), and the response
\* carries a result of severity Fatal together with a condition
\* FunctionSuccess = False with reason InternalError targeting composite and
\* claim.
C11_AsStated ==
    (pc = "done" /\ ~DecodeFailure /\ ObservedUndecodable) =>
        /\ ret = "rsp"
        /\ resources = <<>>
        /\ i = 1
        /\ ConditionTypes(rsp) \cap ReadinessTypes = {}
        /\ rsp.desired = Inbound
        /\ \E n \in 1..Len(rsp.results) : rsp.results[n].Severity = "Fatal"
        /\ \E n \in 1..Len(rsp.conditions) :
               /\ rsp.conditions[n].Type = "FunctionSuccess"
               /\ rsp.conditions[n].Status = "False"
               /\ rsp.conditions[n].Reason = "InternalError"
               /\ rsp.conditions[n].Target = TargetCompositeAndClaim

----------------------------------------------------------------------------
(* C12 *)

\* The loop of RunFunction stopped at a composer whose built object did not
\* convert.
CompositionFailure == pc = "done" /\ resources # <<>> /\ i <= Len(resources)

\* C12 as stated: when the conversion of a built object fails, the caller
\* receives a response with a condition FunctionSuccess = False with reason
\* CompositionError targeting the composite only, the composers after the
\* failing one are not run, and no desired entry built during the invocation
\* is in what the caller receives.
C12_AsStated ==
    CompositionFailure =>
        /\ ret = "rsp"
        /\ \E n \in 1..Len(rsp.conditions) :
               /\ rsp.conditions[n].Type = "FunctionSuccess"
               /\ rsp.conditions[n].Status = "False"
               /\ rsp.conditions[n].Reason = "CompositionError"
               /\ rsp.conditions[n].Target = TargetComposite
        /\ \A k \in (i + 1)..Len(resources) :
               ConditionsOfType(rsp, resources[k].ConditionType) = {}
        /\ rsp.desired = Inbound

----------------------------------------------------------------------------
(* C13 *)

\* The request and the response of the invocation before this one.
PrevReq == Deref(prev).req
PrevRsp == Deref(prev).rsp

\* This invocation and the one before it agree on the spec, the static
\* config and the observed set.
SameInputs ==
    /\ req.composite = PrevReq.composite
    /\ req.input = PrevReq.input
    /\ req.observed = PrevReq.observed

\* The names of the kinds this invocation builds.
BuiltNames == {NameOfKind(Kinds[k]) : k \in {j \in 1..3 : GatewayEntryPrecondition(Kinds[j])}}

\* C13 as stated: two invocations that agree on the spec, the static config
\* and the observed set, and both return a response without a fatal result,
\* return the same desired set and the same ordered list of conditions.
C13_AsStated ==
    (prev # Nil /\ Answered /\ SameInputs) =>
        /\ rsp.desired = PrevRsp.desired
        /\ rsp.conditions = PrevRsp.conditions

\* C13 amended: two invocations that agree on the spec, the static config
\* and the observed set, and both return a response without a fatal result,
\* return the same ordered list of conditions and the same entries under the
\* names of the kinds they build; every other entry of a desired set is the
\* entry of that invocation's inbound desired set, so the desired sets are
\* the same when the inbound desired sets agree too.
C13_FunctionOfInputsAndInbound ==
    (prev # Nil /\ Answered /\ SameInputs) =>
        /\ rsp.conditions = PrevRsp.conditions
        /\ \A name \in BuiltNames :
               /\ name \in DOMAIN rsp.desired
               /\ name \in DOMAIN PrevRsp.desired
               /\ rsp.desired[name] = PrevRsp.desired[name]
        /\ (DOMAIN rsp.desired) \ BuiltNames = (DOMAIN Inbound) \ BuiltNames
        /\ \A name \in (DOMAIN rsp.desired) \ BuiltNames : PassedThrough(name)
        /\ Inbound = PrevReq.desired.resources => rsp.desired = PrevRsp.desired

C13_Witness ==
    /\ prev # Nil
    /\ Answered
    /\ SameInputs
    /\ Inbound # PrevReq.desired.resources
    /\ rsp.desired # PrevRsp.desired
    /\ Len(rsp.conditions) = 3
    /\ rsp.conditions = PrevRsp.conditions

----------------------------------------------------------------------------
(* C14 *)

\* The three resource names the claim gives for a spec.name, in the order
\* deployment, service, httproute.
StatedNames(name) ==
    CASE name = "app" -> <<"xdeployment-deployment-app",
                           "xdeployment-service-app",
                           "xdeployment-httproute-app">>
      [] name = "web" -> <<"xdeployment-deployment-web",
                           "xdeployment-service-web",
                           "xdeployment-httproute-web">>

\* C14: once the composers are constructed, the resource name of each is the
\* stated one for its kind and the spec.name of the request, whatever the
\* rest of the request; the observed resource of the composer is the entry of
\* the observed set under that name (none when there is no such entry), and
\* the object the composer builds is stored in the desired set, and returned,
\* under that name.
C14_ResourceNames ==
    resources # <<>> =>
        \A k \in 1..3 :
            LET name == StatedNames(req.composite.value.Name)[k]
            IN  /\ resources[k].ResourceName = name
                /\ resources[k].ObservedResource =
                       IF name \in DOMAIN req.observed.resources
                       THEN Ptr(req.observed.resources[name])
                       ELSE Nil
                /\ (Processed(k) /\ Built(k)) =>
                       /\ name \in DOMAIN desired
                       /\ desired[name].Resource = Deref(createResource(resources[k]))
                /\ (Answered /\ Built(k)) =>
                       /\ name \in DOMAIN rsp.desired
                       /\ rsp.desired[name].Resource = Deref(createResource(resources[k]))

C14_Witness ==
    /\ Answered
    /\ req.composite.value.Name = "web"
    /\ req.observed.resources # EmptyMap
    /\ DOMAIN rsp.desired = {"xdeployment-deployment-web",
                             "xdeployment-service-web",
                             "xdeployment-httproute-web"}
    /\ \A k \in 1..3 : resources[k].ObservedResource = Nil

----------------------------------------------------------------------------
(* C15 *)

\* The response has exactly one condition of the type, and it is
\* False/Unavailable.
ReportedUnavailable(type) ==
    /\ Cardinality(ConditionsOfType(rsp, type)) = 1
    /\ \A n \in ConditionsOfType(rsp, type) :
           /\ rsp.conditions[n].Status = "False"
           /\ rsp.conditions[n].Reason = "Unavailable"

\* The first half of C15: in a response without a fatal result, the entry of
\* a built kind has readyFlag true only if the observed set has an entry
\* under the kind's resource name and the readiness check on it succeeds;
\* with no observed entry under the name, the entry has readyFlag false and
\* the kind's condition is False/Unavailable.
ReadyOnlyFromObserved ==
    Answered =>
        \A k \in 1..3 :
            Built(k) =>
                LET name == NameOfKind(Kinds[k])
                IN  /\ rsp.desired[name].Ready = ReadyTrue =>
                           /\ name \in DOMAIN req.observed.resources
                           /\ IsReady(resources[k])
                    /\ name \notin DOMAIN req.observed.resources =>
                           /\ rsp.desired[name].Ready = ReadyFalse
                           /\ ReportedUnavailable(ConditionTypeOf(Kinds[k]))

\* The request has an empty observed set and meets the three preconditions.
NothingObservedAllRequested ==
    /\ req.observed.resources = EmptyMap
    /\ \A k \in 1..3 : StatedPrecondition(Kinds[k])

\* C15 as stated: the first half, and with an empty observed set and the
\* three preconditions met the desired set of a response without a fatal
\* result has size 3 and the three conditions are False/Unavailable.
C15_AsStated ==
    /\ ReadyOnlyFromObserved
    /\ (Answered /\ NothingObservedAllRequested) =>
           /\ Cardinality(DOMAIN rsp.desired) = 3
           /\ Len(rsp.conditions) = 3
           /\ \A type \in ReadinessTypes : ReportedUnavailable(type)

\* C15 amended: the first half, and with an empty observed set and the three
\* preconditions met the desired set of a response without a fatal result
\* holds the three entries of the engine, each with readyFlag false, beside
\* the inbound entries under other names (so its size is 3 when the inbound
\* desired set has no entry under another name), and the three conditions
\* are False/Unavailable.
C15_UnobservedIsUnready ==
    /\ ReadyOnlyFromObserved
    /\ (Answered /\ NothingObservedAllRequested) =>
           LET names == {NameOfKind(Kinds[k]) : k \in 1..3}
           IN  /\ DOMAIN rsp.desired = names \cup DOMAIN Inbound
               /\ Cardinality(names) = 3
               /\ \A name \in names :
                      /\ rsp.desired[name].Ready = ReadyFalse
                      /\ ~PassedThrough(name)
               /\ \A name \in (DOMAIN Inbound) \ names : PassedThrough(name)
               /\ Len(rsp.conditions) = 3
               /\ \A type \in ReadinessTypes : ReportedUnavailable(type)

C15_Witness ==
    /\ Answered
    /\ NothingObservedAllRequested
    /\ Inbound = EmptyMap
    /\ Cardinality(DOMAIN rsp.desired) = 3
    /\ \A name \in DOMAIN rsp.desired : rsp.desired[name].Ready = ReadyFalse
    /\ Len(rsp.conditions) = 3

----------------------------------------------------------------------------
(* C16 *)

\* The entry the engine stores for composer k: the built object, with
\* readyFlag true iff the readiness check succeeds.
EngineEntry(k) ==
    [Resource |-> Deref(createResource(resources[k])),
     Ready |-> IF IsReady(resources[k]) THEN ReadyTrue ELSE ReadyFalse]

\* C16: once the loop has run a composer whose Build is non-absent, the
\* aggregated desired set holds under the composer's resource name the
\* engine's entry (built body, readyFlag from the readiness check), whether
\* or not the caller supplied an entry under that name, and a response
\* without a fatal result returns it; the caller's entries under the names
\* of composers the loop has not yet run are still the caller's.
C16_BuiltReplacesInbound ==
    resources # <<>> =>
        \A k \in 1..3 :
            LET name == resources[k].ResourceName
            IN  /\ (Processed(k) /\ Built(k)) =>
                       /\ name \in DOMAIN desired
                       /\ desired[name] = EngineEntry(k)
                       /\ desired[name].Resource # CallerBody
                       /\ Answered => rsp.desired[name] = EngineEntry(k)
                /\ (~Processed(k) /\ name \in DOMAIN Inbound) =>
                       /\ name \in DOMAIN desired
                       /\ desired[name] = Inbound[name]

C16_Witness ==
    /\ Answered
    /\ Built(2)
    /\ resources[2].ResourceName \in DOMAIN Inbound
    /\ Inbound[resources[2].ResourceName].Ready = ReadyTrue
    /\ rsp.desired[resources[2].ResourceName].Ready = ReadyFalse
    /\ rsp.desired[resources[2].ResourceName].Resource.Kind = "Service"

----------------------------------------------------------------------------
(* C17 *)

\* The function called on its own has returned.
Returned(fn) == out.returned /\ call.fn = fn

\* s comes strictly before t in lexicographic order.
RECURSIVE LexBefore(_, _)
LexBefore(s, t) ==
    IF t = <<>> THEN FALSE
    ELSE IF s = <<>> THEN TRUE
    ELSE IF Head(s) = Head(t) THEN LexBefore(Tail(s), Tail(t))
    ELSE Head(s) < Head(t)

\* C17: convertEnvVars returns a sequence in which every key of the map is
\* the name of exactly one element, paired with the map's value for it, the
\* names in strictly ascending lexicographic order, whatever the order in
\* which the map's keys were visited; for a map without keys it returns the
\* empty sequence.
C17_SortedEnvVars ==
    Returned("convertEnvVars") =>
        LET envMap == call.envMap
            got == out.value
        IN  /\ Len(got) = Cardinality(DOMAIN envMap)
            /\ \A key \in DOMAIN envMap :
                   Cardinality({n \in 1..Len(got) : got[n].Name = key}) = 1
            /\ \A n \in 1..Len(got) :
                   /\ got[n].Name \in DOMAIN envMap
                   /\ got[n].Value = envMap[got[n].Name]
            /\ \A n \in 1..(Len(got) - 1) : LexBefore(got[n].Name, got[n + 1].Name)
            /\ \A v \in Enumerations(DOMAIN envMap) : convertEnvVarsFrom(envMap, v) = got
            /\ envMap = EmptyMap => got = <<>>

\* Three keys, one a prefix of another, visited in descending order.
C17_Witness ==
    /\ Returned("convertEnvVars")
    /\ call.visited = <<<<97>>, <<66, 97>>, <<66>>>>
    /\ Len(out.value) = 3
    /\ out.value[1].Name = <<66>>
    /\ out.value[2].Name = <<66, 97>>
    /\ out.value[3].Name = <<97>>

----------------------------------------------------------------------------
(* C18 *)

\* C18: the deployment Build returns has replica count 2 when spec.replicas
\* is unset, and otherwise the value of spec.replicas, unchanged, be it
\* zero, negative or positive.
C18_Replicas ==
    Returned("Deployment.createResource") =>
        LET replicas == call.f.XR.Spec.Replicas
        IN  /\ out.value # Nil
            /\ Deref(out.value).Replicas # Nil
            /\ Deref(Deref(out.value).Replicas) =
                   IF replicas = Nil THEN 2 ELSE Deref(replicas)

C18_Witness ==
    /\ Returned("Deployment.createResource")
    /\ call.f.XR.Spec.Replicas # Nil
    /\ Deref(call.f.XR.Spec.Replicas) < 0
    /\ Deref(out.value).Replicas = call.f.XR.Spec.Replicas

----------------------------------------------------------------------------
(* C19 *)

\* C19: the Build of the deployment composer is never absent, and every
\* response without a fatal result has under the deployment's resource name
\* the deployment the engine built, and exactly one DeploymentReady
\* condition; the container of the built deployment has a port iff spec.port
\* is set.
C19_DeploymentAlways ==
    /\ resources # <<>> => createResource(resources[1]) # Nil
    /\ Answered =>
           LET name == NameOfKind("deployment")
           IN  /\ name \in DOMAIN rsp.desired
               /\ rsp.desired[name].Resource.Kind = "Deployment"
               /\ Len(rsp.desired[name].Resource.Containers) = 1
               /\ (rsp.desired[name].Resource.Containers[1].Ports # <<>>)
                      <=> (ReqSpec.Port # Nil)
               /\ Cardinality(ConditionsOfType(rsp, "DeploymentReady")) = 1

C19_Witness ==
    /\ Answered
    /\ ReqSpec.Port = Nil
    /\ NameOfKind("deployment") \in DOMAIN rsp.desired
    /\ rsp.desired[NameOfKind("deployment")].Resource.Containers[1].Ports = <<>>
    /\ ConditionTypes(rsp) = {"DeploymentReady"}

----------------------------------------------------------------------------
(* C20 *)

\* The observed deployments of the context of the call.
ObservedDeployments ==
    {call.f.Observed[n] : n \in (DOMAIN call.f.Observed) \cap {"xdeployment-deployment-app"}}

\* C20: Deployment.IsReady returns true iff there is an observed deployment
\* and its status conditions hold, at any position, a condition of type
\* Available with status True.
C20_DeploymentIsReady ==
    Returned("Deployment.IsReady") =>
        (out.value <=>
            \E o \in ObservedDeployments :
                \E n \in 1..Len(o.conditions) :
                    o.conditions[n] = [Type |-> "Available", Status |-> "True"])

\* Ready by the last of three conditions, after an Available that is False.
C20_Witness ==
    /\ Returned("Deployment.IsReady")
    /\ out.value
    /\ \E o \in ObservedDeployments :
           /\ Len(o.conditions) = 3
           /\ o.conditions[1] = [Type |-> "Available", Status |-> "False"]
           /\ o.conditions[2].Type = "Progressing"
           /\ o.conditions[3] = [Type |-> "Available", Status |-> "True"]

----------------------------------------------------------------------------
(* C21 *)

\* The observed services of the context of the call.
ObservedServices ==
    {call.f.Observed[n] : n \in (DOMAIN call.f.Observed) \cap {"xdeployment-service-app"}}

\* C21: Service.IsReady returns true iff there is an observed service and its
\* cluster IP is not the empty string.
C21_ServiceIsReady ==
    Returned("Service.IsReady") =>
        (out.value <=> \E o \in ObservedServices : o.clusterIP # "")

C21_Witness ==
    /\ Returned("Service.IsReady")
    /\ ~out.value
    /\ \E o \in ObservedServices : o.clusterIP = ""

----------------------------------------------------------------------------
(* C22 *)

\* The observed routes of the context of the call.
ObservedRoutes ==
    {call.f.Observed[n] : n \in (DOMAIN call.f.Observed) \cap {"xdeployment-httproute-app"}}

\* The conditions of a parent status entry hold Accepted with status True.
ParentAccepted(conditions) ==
    \E n \in 1..Len(conditions) :
        conditions[n] = [Type |-> "Accepted", Status |-> "True"]

\* C22: HttpRoute.IsReady returns true iff there is an observed route and one
\* of its parent status entries, at any position, holds an Accepted
\* condition with status True, whatever the other parents report.
C22_HttpRouteIsReady ==
    Returned("HttpRoute.IsReady") =>
        (out.value <=>
            \E o \in ObservedRoutes :
                \E p \in 1..Len(o.parents) : ParentAccepted(o.parents[p]))

\* Ready by the second parent, the first reporting Accepted = False.
C22_Witness ==
    /\ Returned("HttpRoute.IsReady")
    /\ out.value
    /\ \E o \in ObservedRoutes :
           /\ Len(o.parents) = 2
           /\ o.parents[1] = <<[Type |-> "Accepted", Status |-> "False"]>>
           /\ ParentAccepted(o.parents[2])

----------------------------------------------------------------------------
(* C23 *)

\* A 32-bit port number is the value of the Go int v.
EqualsPort(number, v) ==
    /\ v[1] \in (0 - 32768)..32767
    /\ number = v[1] * 65536 + v[2]

\* C23 as stated: the Build of the service composer is non-absent iff
\* spec.port is set, and the built service has exactly one port, whose
\* listening port is 8080 and whose target port equals spec.port.
C23_AsStated ==
    Returned("Service.createResource") =>
        LET port == call.f.XR.Spec.Port
        IN  /\ (out.value # Nil) <=> (port # Nil)
            /\ out.value # Nil =>
                   /\ Len(Deref(out.value).Ports) = 1
                   /\ Deref(out.value).Ports[1].Port = 8080
                   /\ EqualsPort(Deref(out.value).Ports[1].TargetPort, Deref(port))

----------------------------------------------------------------------------
(* C24 *)

\* How far the one pass of RunFunction has come: decoding, constructing,
\* the loop at composer i, setting the desired resources, returned.
PassRank ==
    CASE pc = "start"     -> 0
      [] pc = "construct" -> 1
      [] pc = "compose"   -> 1 + i
      [] pc = "set"       -> 5
      [] pc = "done"      -> 6

HasFatal(r) == \E n \in 1..Len(r.results) : r.results[n].Severity = "Fatal"

\* C24: every step of an invocation moves the pass forward, so that it ends
\* after at most six steps and no step is taken twice; no step follows the
\* return; the step that adds a Fatal result, or fails, is the return; the
\* loop runs the composers one after the other, each once, and an invocation
\* that returns its response without a fatal result has run all three.
C24_SinglePass ==
    [][/\ pc # "done"
       /\ PassRank' > PassRank
       /\ PassRank' <= 6
       /\ (HasFatal(rsp') \/ ret' = "err") => pc' = "done"
       /\ pc' = "done" => ret' \in {"rsp", "err"}
       /\ (pc = "compose" /\ pc' # "done") =>
              /\ i' = i + 1
              /\ resources' = resources
       /\ (pc' = "done" /\ ret' = "rsp" /\ ~HasFatal(rsp')) =>
              /\ Len(resources') = 3
              /\ i' = 4
              /\ pc = "set"
      ]_vars

C24_Witness ==
    /\ Answered
    /\ i = Len(resources) + 1
    /\ PassRank = 6
    /\ Len(rsp.conditions) = 3

----------------------------------------------------------------------------
(* C25 *)

\* The request decoded, and the constructors, which call ConvertObserved for
\* the three resource names, are over.
ConstructorsOver == ~DecodeFailure /\ pc \in {"compose", "set", "done"}

\* C25: the constructors fail iff the observed set has, under one of the
\* three names they look up, an entry that does not decode; when they do not
\* fail, the observed resource of each composer is none when the observed
\* set has no entry under its name (whatever entries it has under other
\* names), and is the decoded entry otherwise; the observed set is, at every
\* step after it was read from the request, what the request carried.
C25_ConvertObserved ==
    /\ ConstructorsOver => (resources = <<>> <=> ObservedUndecodable)
    /\ resources # <<>> =>
           \A k \in 1..3 :
               LET name == NameOfKind(Kinds[k])
               IN  IF name \in DOMAIN req.observed.resources
                   THEN /\ resources[k].ObservedResource # Nil
                        /\ Deref(resources[k].ObservedResource) = req.observed.resources[name]
                        /\ ~req.observed.resources[name].corrupt
                   ELSE resources[k].ObservedResource = Nil
    /\ (~DecodeFailure /\ pc # "start") => observed = req.observed.resources

\* An XR under whose names nothing was observed, with an observed set that
\* has entries, under other names, one of which does not decode.
C25_Witness ==
    /\ Answered
    /\ req.composite.value.Name = "web"
    /\ \E n \in DOMAIN req.observed.resources : req.observed.resources[n].corrupt
    /\ observed = req.observed.resources
    /\ \A k \in 1..3 : resources[k].ObservedResource = Nil

----------------------------------------------------------------------------
(* C26 *)

\* The object given to ComposeDesiredResourceFrom is nil, untyped or typed.
GivenNil == call.structuredResource \in {UntypedNil, Nil}

\* What the call returned is Absent: no resource and no error.
ReturnedAbsent == ~out.value.err /\ out.value.res = Nil

\* What the call returned is the given object under the composer's resource
\* name, with readyFlag false.
ReturnedUnready ==
    /\ ~out.value.err
    /\ out.value.res # Nil
    /\ Deref(out.value.res).Name = call.b.ResourceName
    /\ Deref(out.value.res).Resource.Resource = Deref(call.structuredResource)
    /\ Deref(out.value.res).Resource.Ready = "False"

\* C26 as stated: ComposeDesiredResourceFrom returns Absent for an untyped
\* nil and for a typed nil pointer, and for every non-nil object a
\* DesiredResource under the composer's resource name with readyFlag false.
C26_AsStated ==
    Returned("ComposeDesiredResourceFrom") =>
        IF GivenNil THEN ReturnedAbsent ELSE ReturnedUnready

\* C26 amended: ComposeDesiredResourceFrom returns Absent for an untyped nil
\* and for a typed nil pointer; for a non-nil object it returns, when the
\* object converts, a DesiredResource under the composer's resource name with
\* readyFlag false, and when the conversion fails an error and no
\* DesiredResource; it never returns a resource with readyFlag true.
C26_AbsentOrUnready ==
    Returned("ComposeDesiredResourceFrom") =>
        /\ IF GivenNil THEN ReturnedAbsent
           ELSE IF call.fromFails THEN out.value.err /\ out.value.res = Nil
           ELSE ReturnedUnready
        /\ out.value.res # Nil => Deref(out.value.res).Resource.Ready # "True"

C26_Witness ==
    /\ Returned("ComposeDesiredResourceFrom")
    /\ call.structuredResource = Ptr([Kind |-> "ConfigMap", Name |-> "test-configmap"])
    /\ call.b.ResourceName = "configmap-resource"
    /\ ReturnedUnready

----------------------------------------------------------------------------
(* C27 *)

\* The three resource names of the engine for the request's XR.
EngineNames == {NameOfKind(Kinds[k]) : k \in 1..3}

\* The names of the inbound desired entries that are not the engine's.
ForeignInbound == (DOMAIN Inbound) \ EngineNames

\* C27: once the request is decoded, the aggregated desired set holds every
\* inbound entry under a name that is none of the engine's three, with the
\* caller's body and readyFlag, at every step, and holds no entry under
\* another such name; a response RunFunction returns holds them likewise.
C27_ForeignEntriesKept ==
    /\ (~DecodeFailure /\ pc # "start") =>
           /\ (DOMAIN desired) \ EngineNames = ForeignInbound
           /\ \A name \in ForeignInbound : desired[name] = Inbound[name]
    /\ (pc = "done" /\ ret = "rsp") =>
           /\ (DOMAIN rsp.desired) \ EngineNames = ForeignInbound
           /\ \A name \in ForeignInbound : rsp.desired[name] = Inbound[name]

\* All three kinds built, beside a caller's entry under another name.
C27_Witness ==
    /\ Answered
    /\ ForeignInbound # {}
    /\ EngineNames \subseteq DOMAIN rsp.desired
    /\ \A name \in EngineNames : ~PassedThrough(name)
    /\ \A name \in ForeignInbound : rsp.desired[name] = Inbound[name]

----------------------------------------------------------------------------
(* C28 *)

\* The object composer k builds.
BuiltObject(k) == Deref(createResource(resources[k]))

\* C28: whenever the route is built the service is built too; the built
\* route has one rule with one backend reference, which names the built
\* service (the spec name) with port 8080, the listening port of the
\* service's one port; and a response without a fatal result that holds the
\* route the engine built holds the service the engine built.
C28_RouteBackendIsService ==
    (resources # <<>> /\ Built(3)) =>
        /\ Built(2)
        /\ Len(BuiltObject(3).Rules) = 1
        /\ Len(BuiltObject(3).Rules[1].BackendRefs) = 1
        /\ LET backend == BuiltObject(3).Rules[1].BackendRefs[1]
           IN  /\ backend.Name = BuiltObject(2).Name
               /\ backend.Name = req.composite.value.Name
               /\ backend.Port = 8080
               /\ Len(BuiltObject(2).Ports) = 1
               /\ backend.Port = BuiltObject(2).Ports[1].Port
        /\ Answered =>
               /\ rsp.desired[NameOfKind("httproute")].Resource = BuiltObject(3)
               /\ NameOfKind("service") \in DOMAIN rsp.desired
               /\ rsp.desired[NameOfKind("service")].Resource = BuiltObject(2)

C28_Witness ==
    /\ Answered
    /\ Built(3)
    /\ rsp.desired[NameOfKind("httproute")].Resource.Rules[1].BackendRefs[1]
           = [Name |-> "web", Port |-> 8080]
    /\ rsp.desired[NameOfKind("service")].Resource.Name = "web"
    /\ rsp.desired[NameOfKind("service")].Resource.Ports[1].Port = 8080

----------------------------------------------------------------------------
(* C29 *)

\* This invocation was given the desired set the one before it returned.
FedBack == Inbound = PrevRsp.desired

\* C29: an invocation that is given the desired set the invocation before it
\* returned, with the same spec, static config and observed set, and returns
\* a response without a fatal result, returns the same desired set and the
\* same ordered list of conditions as the invocation before it.
C29_Idempotent ==
    (prev # Nil /\ Answered /\ SameInputs /\ FedBack) =>
        /\ rsp.desired = PrevRsp.desired
        /\ rsp.conditions = PrevRsp.conditions

C29_Witness ==
    /\ prev # Nil
    /\ Answered
    /\ SameInputs
    /\ FedBack
    /\ Inbound # PrevReq.desired.resources
    /\ \A k \in 1..3 : Built(k)
    /\ \E k \in 1..3 : rsp.desired[NameOfKind(Kinds[k])].Ready = "True"
    /\ \E k \in 1..3 : rsp.desired[NameOfKind(Kinds[k])].Ready = "False"
    /\ rsp.desired = PrevRsp.desired
    /\ rsp.conditions = PrevRsp.conditions
    /\ rsp.conditions # <<>>

----------------------------------------------------------------------------
(* C30 *)

\* The request's observed set cut down to the entry under a kind's own
\* resource name.
OwnObserved(kind) ==
    [name \in (DOMAIN req.observed.resources) \cap {NameOfKind(kind)} |->
        req.observed.resources[name]]

\* An invocation's context that keeps of the request only spec.name and the
\* kind's own observed entry: no other spec field, no static config, no
\* other observed entry, no inbound desired set.
OwnContext(kind) ==
    [Observed |-> OwnObserved(kind),
     XR |-> [ZeroXDeployment EXCEPT !.Name = req.composite.value.Name],
     Defaults |-> Nil]

\* IsReady of the kind's composer constructed from that context.
OwnReadiness(kind) == IsReady(Deref(NewComposer(kind, OwnContext(kind)).composer))

\* C30: the readiness result of every kind the loop has run and built (its
\* condition, the readyFlag of its desired entry, and what IsReady returns
\* each time it is called on the composer) is the one computed from
\* spec.name and the observed entry under the kind's own resource name alone.
C30_ReadinessOfOwnEntry ==
    \A k \in 1..3 :
        (Processed(k) /\ Built(k)) =>
            LET r == resources[k]
                own == OwnReadiness(r.Kind)
                at == ConditionsOfType(rsp, r.ConditionType)
            IN  /\ IsReady(r) = own
                /\ at # {}
                /\ \A n \in at :
                       rsp.conditions[n] = ReadinessCondition(r.ConditionType, own)
                /\ desired[r.ResourceName].Ready = IF own THEN ReadyTrue ELSE ReadyFalse
                /\ Answered =>
                       rsp.desired[r.ResourceName].Ready
                           = IF own THEN ReadyTrue ELSE ReadyFalse

C30_Witness ==
    /\ Answered
    /\ Built(2) /\ Built(3)
    /\ NameOfKind("service") \in DOMAIN req.observed.resources
    /\ rsp.desired[NameOfKind("service")].Ready = ReadyFalse
    /\ rsp.desired[NameOfKind("httproute")].Ready = ReadyTrue
    /\ OwnReadiness("httproute")
    /\ OwnContext("httproute") # resources[3].FunctionContext
    /\ Inbound # EmptyMap

====
